---------------------------- MODULE Spec2Model ----------------------------
(***************************************************************************)
(* A model of the leadscore scoring engine: the Settings singleton and its *)
(* in-memory threshold update, LeadScorer (seven feature scorers, the      *)
(* weighted aggregation, the categorizer, the batch sort) and the          *)
(* ScoringScheduler wrapper around APScheduler's AsyncIOScheduler.         *)
(*                                                                         *)
(* Arithmetic.  Python floats are modelled as exact fixed-point integers:  *)
(*   - a sub-score s in [0,1] is the integer s * One        (One = 1200),  *)
(*   - a weight w is the integer w * WeightOne        (WeightOne = 10000), *)
(*   - total_score is the integer total * One * WeightOne,                 *)
(*   - final_score (0..100) is an integer in units of 1/PointUnit of a     *)
(*     score point, PointUnit = One * WeightOne / 100 = 120000,            *)
(*   - LeadScore.score (rounded to 2 decimals) is an integer number of     *)
(*     hundredths of a point.                                              *)
(* One = 1200 makes every quotient of the scorers (n/10, n/5, n/8, n/6,    *)
(* times 1.2 or 1.5) an integer, so no precision is lost.  The model does  *)
(* not reproduce binary floating point error (of the order of 1e-14).      *)
(***************************************************************************)
EXTENDS Integers, Sequences, FiniteSets, TLC

VARIABLES
    env,          \* feature weights found in the environment / .env file
    settings,     \* the Settings object cached by get_settings (lru_cache)
    scorer,       \* a LeadScorer instance (self.settings aliases `settings`)
    crm,          \* what HubSpotClient.get_contacts returns: a list of leads
    out,          \* outcome of the last scoring / configuration call
    stale,        \* history: thresholds changed since `scorer` was built
    sched,        \* APScheduler state of ScoringScheduler.scheduler
    jobstore,     \* jobs in the (memory) job store of a started scheduler
    pending,      \* BaseScheduler._pending_jobs: jobs added while stopped
    firings,      \* history: callback executions begun, per job id
    trig,         \* history: trigger_immediate_refresh calls, and how many
                  \*   of them came while no one-shot job was waiting
    ret,          \* outcome of the last ScoringScheduler call
    deploy,       \* Settings.demo_mode, and whether slack_webhook_url is set
    runs          \* the execution of the refresh callback, per job id

vars == <<env, settings, scorer, crm, out, stale,
          sched, jobstore, pending, firings, trig, ret, deploy, runs>>

scoreVars == <<env, settings, scorer, crm, out, stale>>
schedVars == <<sched, jobstore, pending, firings, trig, ret, deploy, runs>>

---------------------------------------------------------------------------
(* Units *)

One == 1200
WeightOne == 10000
PointUnit == (One * WeightOne) \div 100
WeightTolerance == WeightOne \div 1000      \* the 0.001 of validate_weights

Min(a, b) == IF a <= b THEN a ELSE b
Max(a, b) == IF a >= b THEN a ELSE b
Abs(a) == IF a >= 0 THEN a ELSE -a

\* An optional value (T | None) is <<>> for None and <<v>> for v.
None == <<>>
Some(v) == <<v>>
IsNone(o) == o = <<>>
Get(o) == o[1]

\* A datetime with tzinfo, h hours before now.
Aware(h) == <<h, "UTC">>
IsAware(o) == Len(o) = 2

\* (datetime.utcnow() - t).days: the whole days of the difference, rounded
\* down; TypeError when t carries a time zone (utcnow() does not).
\* (Faulty variant: a day that has begun counts as a whole day.)
DaysSinceBegun(o) == (Get(o) + 23) \div 24
DaysSince(o) == Get(o) \div 24
SubtractRaises(o) == ~IsNone(o) /\ IsAware(o)

\* Timestamps of the model's leads.
HoursAgo(h) == Some(h)
DaysAgo(d) == Some(24 * d)

Features == {"email_opens", "email_clicks", "website_visits",
             "crm_activities", "deal_stage", "company_size", "recency"}

---------------------------------------------------------------------------
(* models/lead.py.  A lead is a record                                     *)
(*   [id, email_opens, email_clicks, website_visits, crm_activities,       *)
(*    last_email_open, last_website_visit, deal_stage, company_size,       *)
(*    last_activity]                                                       *)
(* The four counts are Python ints (any sign: the model declares no        *)
(* bound).  The three timestamps are optional datetimes.  A present        *)
(* timestamp is held as its age, the whole hours from it to                *)
(* datetime.utcnow() (negative for a timestamp in the future): <<h>> for a *)
(* naive datetime, <<h, "UTC">> for one that carries a time zone, which    *)
(* the Lead model accepts as well.                                         *)

HOT == "hot"
WARM == "warm"
COLD == "cold"
ScoreCategory == {HOT, WARM, COLD}

\* str.lower() on the deal-stage strings of the model's lead pools.
Lower(s) ==
    CASE s = "Opportunity" -> "opportunity"
      [] s = "CUSTOMER" -> "customer"
      [] s = "Qualified" -> "qualified"
      [] OTHER -> s

---------------------------------------------------------------------------
(* services/scorer.py: the seven feature scorers, each from a lead to a    *)
(* sub-score in units of 1/One.                                            *)

\* recency_boost * 10 of _score_email_opens
EmailRecencyBoost(lead) ==
    IF IsNone(lead.last_email_open) THEN 10
    ELSE LET days_since == DaysSince(lead.last_email_open)
         IN  IF days_since <= 7 THEN 15
             ELSE IF days_since <= 30 THEN 12
             ELSE 10

\* (Faulty variant: a single open is scored like none.)
_score_email_opens_from_two(lead) ==
    LET opens == lead.email_opens
    IN  IF opens = 0 \/ opens = 1 THEN 0
        ELSE LET base_score == Min(One, opens * (One \div 10))
             IN  Min(One, (base_score * EmailRecencyBoost(lead)) \div 10)

_score_email_opens(lead) ==
    LET opens == lead.email_opens
    IN  IF opens = 0 THEN 0
        ELSE LET base_score == Min(One, opens * (One \div 10))
             IN  Min(One, (base_score * EmailRecencyBoost(lead)) \div 10)

_score_email_clicks(lead) ==
    Min(One, lead.email_clicks * (One \div 5))

\* recency_boost * 10 of _score_website_visits
VisitRecencyBoost(lead) ==
    IF IsNone(lead.last_website_visit) THEN 10
    ELSE LET days_since == DaysSince(lead.last_website_visit)
         IN  IF days_since <= 3 THEN 15
             ELSE IF days_since <= 7 THEN 12
             ELSE 10

_score_website_visits(lead) ==
    LET visits == lead.website_visits
    IN  IF visits = 0 THEN 0
        ELSE LET base_score == Min(One, visits * (One \div 8))
             IN  Min(One, (base_score * VisitRecencyBoost(lead)) \div 10)

_score_crm_activities(lead) ==
    Min(One, lead.crm_activities * (One \div 6))

\* stage_scores.get(stage, 0.3)
stage_scores(stage) ==
    CASE stage = "subscriber" -> (2 * One) \div 10
      [] stage = "lead" -> (3 * One) \div 10
      [] stage = "marketing_qualified" -> (5 * One) \div 10
      [] stage = "qualified" -> (6 * One) \div 10
      [] stage = "opportunity" -> (8 * One) \div 10
      [] stage = "customer" -> One
      [] OTHER -> (3 * One) \div 10

_score_deal_stage(lead) ==
    LET stage == Lower(IF IsNone(lead.deal_stage) THEN "" ELSE Get(lead.deal_stage))
    IN  stage_scores(stage)

_score_company_size(lead) ==
    IF IsNone(lead.company_size) \/ Get(lead.company_size) = 0
    THEN (3 * One) \div 10
    ELSE LET size == Get(lead.company_size)
         IN  IF size <= 10 THEN (3 * One) \div 10
             ELSE IF size <= 50 THEN (5 * One) \div 10
             ELSE IF size <= 200 THEN (7 * One) \div 10
             ELSE IF size <= 1000 THEN (9 * One) \div 10
             ELSE One

_score_recency(lead) ==
    IF IsNone(lead.last_activity) THEN 0
    ELSE LET days_since == DaysSince(lead.last_activity)
         IN  IF days_since <= 1 THEN One
             ELSE IF days_since <= 3 THEN (8 * One) \div 10
             ELSE IF days_since <= 7 THEN (6 * One) \div 10
             ELSE IF days_since <= 14 THEN (4 * One) \div 10
             ELSE IF days_since <= 30 THEN (2 * One) \div 10
             ELSE 0

\* A feature scorer raises TypeError: it subtracts a timestamp that carries
\* a time zone from datetime.utcnow().  (The two engagement scorers return
\* before the subtraction when the count is 0.)
score_lead_raises(lead) ==
    \/ lead.email_opens # 0 /\ SubtractRaises(lead.last_email_open)
    \/ lead.website_visits # 0 /\ SubtractRaises(lead.last_website_visit)
    \/ SubtractRaises(lead.last_activity)

\* score_breakdown: feature name -> sub-score, as score_lead fills it
\* (Faulty variant: the breakdown holding each sub-score times its weight,
\* the contribution to total_score.)
WeightedBreakdown(lead) ==
    [f \in Features |->
        ((CASE f \in {"email_clicks", "website_visits"} -> 2000
            [] f = "email_opens" -> 2500
            [] f = "crm_activities" -> 1500
            [] f = "deal_stage" -> 1000
            [] OTHER -> 500) *
            (CASE f = "email_opens" -> _score_email_opens(lead)
               [] f = "email_clicks" -> _score_email_clicks(lead)
               [] f = "website_visits" -> _score_website_visits(lead)
               [] f = "crm_activities" -> _score_crm_activities(lead)
               [] f = "deal_stage" -> _score_deal_stage(lead)
               [] f = "company_size" -> _score_company_size(lead)
               [] f = "recency" -> _score_recency(lead))) \div WeightOne]
Breakdown(lead) ==
    [f \in Features |->
        CASE f = "email_opens" -> _score_email_opens(lead)
          [] f = "email_clicks" -> _score_email_clicks(lead)
          [] f = "website_visits" -> _score_website_visits(lead)
          [] f = "crm_activities" -> _score_crm_activities(lead)
          [] f = "deal_stage" -> _score_deal_stage(lead)
          [] f = "company_size" -> _score_company_size(lead)
          [] f = "recency" -> _score_recency(lead)]

---------------------------------------------------------------------------
(* config.py: Settings, validate_weights, get_settings (lru_cache).        *)

HotDefault == 75
WarmDefault == 50

\* The class defaults of the seven feature weights (sum 1.0).
DefaultWeights ==
    [email_opens |-> 2500, email_clicks |-> 2000, website_visits |-> 2000,
     crm_activities |-> 1500, deal_stage |-> 1000, company_size |-> 500,
     recency |-> 500]

\* total of validate_weights
WeightSum(w) ==
    w.email_opens + w.email_clicks + w.website_visits + w.crm_activities
    + w.deal_stage + w.company_size + w.recency

\* validate_weights raises ValueError
WeightsInvalid(w) == Abs(WeightSum(w) - WeightOne) > WeightTolerance

\* Settings(): thresholds at their class defaults, weights from the
\* environment.
NewSettings(weights) ==
    [cached |-> TRUE, hot_lead_threshold |-> HotDefault,
     warm_lead_threshold |-> WarmDefault, weights |-> weights]

\* The empty lru_cache.
NoSettings == [cached |-> FALSE, hot_lead_threshold |-> HotDefault,
               warm_lead_threshold |-> WarmDefault, weights |-> DefaultWeights]

\* get_settings raises: the cache is empty and the fresh Settings fails
\* validate_weights (lru_cache keeps nothing of a call that raised).
\* (Faulty variant: get_settings without its validate_weights call.)
get_settings_without_validation(s, weights) == FALSE
get_settings_raises(s, weights) == ~s.cached /\ WeightsInvalid(weights)

\* The object get_settings returns (and caches) when it does not raise.
get_settings(s, weights) == IF s.cached THEN s ELSE NewSettings(weights)

---------------------------------------------------------------------------
(* services/scorer.py: LeadScorer.                                         *)

NoScorer == [made |-> FALSE, weights |-> DefaultWeights]

\* LeadScorer.__init__: self.settings is the cached object itself, the
\* weights are copied out of it.
LeadScorer(s) == [made |-> TRUE, weights |-> s.weights]

\* The thresholds _categorize_score reads through self.settings: those of
\* the one cached Settings object, as they are at the time of the call.
\* (Faulty variant: a Settings() built anew, not the cached object.)
SettingsOfFresh(s) == NewSettings(s.weights)
SettingsOf(s) == s

\* (Faulty variant: the two comparisons of _categorize_score turned round.)
_categorize_score_reversed(s, final_score) ==
    IF final_score <= SettingsOf(s).hot_lead_threshold * PointUnit THEN HOT
    ELSE IF final_score <= SettingsOf(s).warm_lead_threshold * PointUnit THEN WARM
    ELSE COLD
_categorize_score(s, final_score) ==
    IF final_score >= SettingsOf(s).hot_lead_threshold * PointUnit THEN HOT
    ELSE IF final_score >= SettingsOf(s).warm_lead_threshold * PointUnit THEN WARM
    ELSE COLD

\* total_score after the seven additions of score_lead
TotalScore(sc, lead) ==
    LET b == Breakdown(lead)
        w == sc.weights
    IN  b.email_opens * w.email_opens + b.email_clicks * w.email_clicks
        + b.website_visits * w.website_visits
        + b.crm_activities * w.crm_activities
        + b.deal_stage * w.deal_stage + b.company_size * w.company_size
        + b.recency * w.recency

\* final_score = min(100.0, max(0.0, total_score * 100))
\* (Faulty variant: the clamp applied to total_score itself, not to
\* total_score * 100.)
NormalizeUnscaled(total_score) == Min(100 * PointUnit, Max(0, total_score \div 100))
\* (Faulty variant: total_score * 100 without min and max.)
NormalizeUnclamped(total_score) == total_score
Normalize(total_score) == Min(100 * PointUnit, Max(0, total_score))

\* round(final_score, 2), in hundredths: to nearest, a tie to the even one
Round2(final_score) ==
    LET h == PointUnit \div 100
        q == final_score \div h
        r == final_score % h
    IN  IF 2 * r < h THEN q
        ELSE IF 2 * r > h THEN q + 1
        ELSE IF q % 2 = 0 THEN q ELSE q + 1

\* score_lead: the LeadScore returned
score_lead(sc, s, lead) ==
    LET final_score == Normalize(TotalScore(sc, lead))
    IN  [lead |-> lead,
         score |-> Round2(final_score),
         score_category |-> _categorize_score(s, final_score),
         score_breakdown |-> Breakdown(lead)]

Reverse(l) == [i \in 1..Len(l) |-> l[Len(l) + 1 - i]]

\* Insert x into the ascending list l behind every element whose key is not
\* greater: the step of a stable (binary) insertion sort.
InsertAsc(l, x) ==
    LET n == Cardinality({i \in 1..Len(l) : l[i].score <= x.score})
    IN  SubSeq(l, 1, n) \o <<x>> \o SubSeq(l, n + 1, Len(l))

RECURSIVE SortAsc(_)
SortAsc(l) ==
    IF l = <<>> THEN <<>>
    ELSE InsertAsc(SortAsc(SubSeq(l, 1, Len(l) - 1)), l[Len(l)])

\* list.sort(key=lambda x: x.score, reverse=True): CPython reverses the
\* list, sorts it ascending with its stable sort, and reverses the result.
\* (Faulty variant: sort ascending, then reverse; ties end up reversed.)
SortAscThenReverse(l) == Reverse(SortAsc(l))
SortByScoreDesc(l) == Reverse(SortAsc(Reverse(l)))

\* score_leads raises: the error of a score_lead call leaves the loop
score_leads_raises(leads) == \E i \in 1..Len(leads) : score_lead_raises(leads[i])

\* score_leads
\* (Faulty variant: the loop stops one lead short.)
score_leads_but_last(sc, s, leads) ==
    SortByScoreDesc([i \in 1..(Len(leads) - 1) |-> score_lead(sc, s, leads[i])])
score_leads(sc, s, leads) ==
    SortByScoreDesc([i \in 1..Len(leads) |-> score_lead(sc, s, leads[i])])

---------------------------------------------------------------------------
(* Inputs of the model.                                                    *)

MaxLeads == 2          \* longest contact list get_contacts returns

\* Weight configurations the environment may hold.
Overweight == [DefaultWeights EXCEPT !.recency = 505]              \* 1.0005
Underweight == [DefaultWeights EXCEPT !.recency = 495]             \* 0.9995
Skewed ==                                                          \* 1.0
    [email_opens |-> 2499, email_clicks |-> 7499, website_visits |-> 0,
     crm_activities |-> 2, deal_stage |-> 0, company_size |-> 0,
     recency |-> 0]
Signed ==                                                          \* 1.0
    [email_opens |-> -5000, email_clicks |-> 15000, website_visits |-> 0,
     crm_activities |-> 0, deal_stage |-> 0, company_size |-> 0,
     recency |-> 0]
Half == [f \in Features |-> DefaultWeights[f] \div 2]              \* 0.5
OneAndHalf == [f \in Features |-> (3 * DefaultWeights[f]) \div 2]  \* 1.5
JustOver == [DefaultWeights EXCEPT !.recency = 511]                \* 1.0011

ValidWeightConfigs == {DefaultWeights, Overweight, Underweight, Skewed, Signed}
InvalidWeightConfigs == {Half, OneAndHalf, JustOver}
WeightConfigs == {DefaultWeights, Overweight, Skewed} \cup InvalidWeightConfigs

\* Values a request body of POST /api/alerts/config may carry.
ThresholdInputs == {-1, 0, 50, 75, 101}
AlertConfigs == [hot_threshold : ThresholdInputs, warm_threshold : ThresholdInputs]

Lead(id, opens, openAge, clicks, visits, visitAge, crmActs, stage, size, age) ==
    [id |-> id, email_opens |-> opens, last_email_open |-> openAge,
     email_clicks |-> clicks, website_visits |-> visits,
     last_website_visit |-> visitAge, crm_activities |-> crmActs,
     deal_stage |-> stage, company_size |-> size, last_activity |-> age]

\* The leads of the contact lists (ids are unique in the CRM).
\*   high:  the high-engagement lead of the tests       (default score 97.5)
\*   low:   the low-engagement lead of the tests        (default score  8.5)
\*   edge:  scores exactly 75 under the default weights
\*   twin:  another lead with the score of edge
\*   warm:  scores exactly 50 under the default weights
\*   bare:  only the required fields, every count 0
LeadPool ==
    { Lead("high", 15, HoursAgo(2), 8, 12, HoursAgo(4), 6, Some("opportunity"), Some(500), HoursAgo(2)),
      Lead("low", 1, DaysAgo(45), 0, 1, None, 0, Some("subscriber"), Some(5), DaysAgo(45)),
      Lead("edge", 10, HoursAgo(0), 5, 8, HoursAgo(0), 1, Some("Qualified"), Some(5), None),
      Lead("twin", 10, None, 5, 8, None, 0, Some("marketing_qualified"), Some(5000), None),
      Lead("warm", 0, None, 5, 8, None, 1, Some("marketing_qualified"), Some(40), None),
      Lead("bare", 0, None, 0, 0, None, 0, None, None, None) }

\* Contact lists: sequences of at most MaxLeads leads with distinct ids.
RECURSIVE ContactListsOf(_, _)
ContactListsOf(pool, n) ==
    IF n = 0 THEN {<<>>}
    ELSE LET shorter == ContactListsOf(pool, n - 1)
         IN  shorter \cup
             {Append(l, x) : l \in {m \in shorter : Len(m) = n - 1},
                             x \in pool}

ContactLists(n) == ContactListsOf(LeadPool, n)

DistinctIds(l) == \A i, j \in 1..Len(l) : i # j => l[i].id # l[j].id

NoConfig == [hot_threshold |-> HotDefault, warm_threshold |-> WarmDefault]
\* What the last call answered: its LeadScores, and for the handlers the
\* request (config, lead_id) and the contacts that get_contacts returned.
Idle == [op |-> "none", status |-> "ok", scored |-> <<>>, config |-> NoConfig,
         lead_id |-> "", fetched |-> <<>>]

NoFirings == [score_refresh |-> 0, immediate_refresh |-> 0]
NoTrigger == [calls |-> 0, bursts |-> 0]
NoCall == [op |-> "none", was |-> "stopped", result |-> "ok"]

\* demo_mode and slack_webhook_url ("" or a URL) as the environment sets
\* them; the class defaults are demo mode and no webhook URL.
Deployments == [demo_mode : BOOLEAN, slack_webhook_url : BOOLEAN]
DefaultDeployment == [demo_mode |-> TRUE, slack_webhook_url |-> FALSE]

NoExecution == [pc |-> "idle", scored |-> <<>>, hot |-> <<>>, k |-> 0,
                failed |-> FALSE, trace |-> <<>>, outcome |-> "none",
                at |-> "", prev |-> "none"]

SchedInit ==
    /\ runs = [id \in {"score_refresh", "immediate_refresh"} |-> NoExecution]
    /\ sched = "stopped"
    /\ jobstore = <<>>
    /\ pending = <<>>
    /\ firings = NoFirings
    /\ trig = NoTrigger
    /\ ret = NoCall

Init ==
    /\ env \in WeightConfigs
    /\ settings = NoSettings
    /\ scorer = NoScorer
    /\ crm \in {l \in ContactLists(MaxLeads) : DistinctIds(l)}
    /\ out = Idle
    /\ stale = FALSE
    /\ deploy = DefaultDeployment
    /\ SchedInit

---------------------------------------------------------------------------
(* Operations on the scoring side.                                         *)

\* settings = get_settings(), as the lifespan start-up calls it
GetSettings ==
    /\ IF get_settings_raises(settings, env)
       THEN /\ out' = [Idle EXCEPT !.op = "get_settings", !.status = "ValueError"]
            /\ UNCHANGED settings
       ELSE /\ settings' = get_settings(settings, env)
            /\ out' = [Idle EXCEPT !.op = "get_settings"]
    /\ UNCHANGED <<env, scorer, crm, stale>>
    /\ UNCHANGED schedVars

\* scorer = LeadScorer()
NewLeadScorer ==
    /\ IF get_settings_raises(settings, env)
       THEN /\ out' = [Idle EXCEPT !.op = "LeadScorer", !.status = "ValueError"]
            /\ UNCHANGED <<settings, scorer, stale>>
       ELSE /\ settings' = get_settings(settings, env)
            /\ scorer' = LeadScorer(settings')
            /\ stale' = FALSE
            /\ out' = [Idle EXCEPT !.op = "LeadScorer"]
    /\ UNCHANGED <<env, crm>>
    /\ UNCHANGED schedVars

\* AlertConfig: Field(ge=0, le=100) on both thresholds
AlertConfigInvalid(config) ==
    \/ config.hot_threshold < 0 \/ config.hot_threshold > 100
    \/ config.warm_threshold < 0 \/ config.warm_threshold > 100

\* "Warm threshold must be less than hot threshold"
\* (Faulty variant: > in place of >=.)
ThresholdsRejectedIfGreater(config) == config.warm_threshold > config.hot_threshold
ThresholdsRejected(config) == config.warm_threshold >= config.hot_threshold

\* settings.hot_lead_threshold = ...; settings.warm_lead_threshold = ...
\* (Faulty variant: the second assignment is missing.)
AssignOnlyHot(s, config) ==
    [s EXCEPT !.hot_lead_threshold = config.hot_threshold]
AssignThresholds(s, config) ==
    [s EXCEPT !.hot_lead_threshold = config.hot_threshold,
              !.warm_lead_threshold = config.warm_threshold]

\* POST /api/alerts/config.  The API serves requests only once the lifespan
\* start-up has run, and that called get_settings() successfully: the
\* handler's own get_settings() returns the cached object.  A body that
\* fails AlertConfig's validation is answered 422 before the handler runs.
update_alert_config(config) ==
    /\ settings.cached
    /\ IF AlertConfigInvalid(config)
       THEN /\ out' = [Idle EXCEPT !.op = "update_alert_config",
                                   !.status = "422", !.config = config]
            /\ UNCHANGED <<settings, stale>>
       ELSE IF ThresholdsRejected(config)
       THEN /\ out' = [Idle EXCEPT !.op = "update_alert_config",
                                   !.status = "400", !.config = config]
            /\ UNCHANGED <<settings, stale>>
       ELSE /\ settings' = AssignThresholds(get_settings(settings, env), config)
            /\ stale' = (stale \/ (scorer.made /\
                    \/ settings'.hot_lead_threshold # settings.hot_lead_threshold
                    \/ settings'.warm_lead_threshold # settings.warm_lead_threshold))
            /\ out' = [Idle EXCEPT !.op = "update_alert_config",
                                   !.status = "200", !.config = config]
    /\ UNCHANGED <<env, scorer, crm>>
    /\ UNCHANGED schedVars

UpdateAlertConfig == \E config \in AlertConfigs : update_alert_config(config)

\* await scorer.score_lead(crm[i])
ScoreLead(i) ==
    /\ scorer.made
    /\ out' = IF score_lead_raises(crm[i])
              THEN [Idle EXCEPT !.op = "score_lead", !.status = "TypeError"]
              ELSE [Idle EXCEPT !.op = "score_lead",
                                !.scored = <<score_lead(scorer, settings, crm[i])>>]
    /\ UNCHANGED <<env, settings, scorer, crm, stale>>
    /\ UNCHANGED schedVars

ScoreOneLead == \E i \in 1..Len(crm) : ScoreLead(i)

\* await scorer.score_leads(crm)
ScoreLeads ==
    /\ scorer.made
    /\ out' = IF score_leads_raises(crm)
              THEN [Idle EXCEPT !.op = "score_leads", !.status = "TypeError"]
              ELSE [Idle EXCEPT !.op = "score_leads",
                                !.scored = score_leads(scorer, settings, crm)]
    /\ UNCHANGED <<env, settings, scorer, crm, stale>>
    /\ UNCHANGED schedVars

Next ==
    \/ GetSettings
    \/ NewLeadScorer
    \/ UpdateAlertConfig
    \/ ScoreOneLead
    \/ ScoreLeads

Spec == Init /\ [][Next]_vars

---------------------------------------------------------------------------
(* services/scheduler.py: ScoringScheduler over APScheduler's              *)
(* AsyncIOScheduler with its default MemoryJobStore.  What the library     *)
(* does on add_job, start and shutdown is modelled after APScheduler 3.x:  *)
(*   - add_job on a stopped scheduler appends the job to _pending_jobs; on *)
(*     a started one it goes to the job store, where replace_existing=True *)
(*     makes it take the place of a job with the same id;                  *)
(*   - start() raises SchedulerAlreadyRunningError unless the scheduler is *)
(*     stopped; otherwise it moves the pending jobs to the job store, one  *)
(*     by one and with their replace_existing flag, and runs;              *)
(*   - shutdown() raises SchedulerNotRunningError on a stopped scheduler;  *)
(*     otherwise it stops and the memory job store drops its jobs;         *)
(*   - a job without trigger is a one-shot job due at once: when the       *)
(*     scheduler processes it, it leaves the store and is run, or is       *)
(*     skipped as misfired when it is processed too late.                  *)
(* A job is [id, trigger]; the job store and _pending_jobs are sequences.  *)

MaxFirings == 2        \* callback executions counted per job id
MaxPending == 2        \* jobs queued on a scheduler that is not started
MaxCalls == 2          \* trigger_immediate_refresh calls counted

ScoreRefreshJob == [id |-> "score_refresh", trigger |-> "interval"]
ImmediateRefreshJob == [id |-> "immediate_refresh", trigger |-> "date"]

JobIds == {"score_refresh", "immediate_refresh"}

\* The number of jobs with the given id in a sequence of jobs.
JobCount(jobs, id) == Cardinality({i \in 1..Len(jobs) : jobs[i].id = id})

\* _real_add_job with replace_existing=True: store.add_job, and on
\* ConflictingIdError store.update_job, which replaces the stored job.
\* (Faulty variant: the job is added beside the one with its id.)
RealAddJobKeepingOld(store, job) == Append(store, job)
RealAddJob(store, job) ==
    IF JobCount(store, job.id) > 0
    THEN [i \in 1..Len(store) |-> IF store[i].id = job.id THEN job ELSE store[i]]
    ELSE Append(store, job)

\* start(): the pending jobs enter the job store in the order they came.
RECURSIVE AddPending(_, _)
AddPending(store, jobs) ==
    IF jobs = <<>> THEN store
    ELSE AddPending(RealAddJob(store, Head(jobs)), Tail(jobs))

\* scheduler.start() raises SchedulerAlreadyRunningError
\* (Faulty variant: start on a running scheduler returns normally.)
StartIgnoredWhenRunning(state) == FALSE
StartRaises(state) == state # "stopped"

\* A one-shot job is waiting: in the job store or among the pending jobs.
ImmediateWaiting ==
    JobCount(jobstore, "immediate_refresh") + JobCount(pending, "immediate_refresh") > 0

---------------------------------------------------------------------------
(* main.py: scheduled_score_refresh, the coroutine the two jobs run, with  *)
(* HubSpotClient.get_contacts and the two SlackNotifier calls it awaits.   *)
(* A coroutine runs without interruption from one suspension to the next;  *)
(* it is suspended only while an HTTP request is under way: the GET of     *)
(* get_contacts and the POST of a notification, both made only when        *)
(* demo_mode is off (and, for the POST, a webhook URL is configured).      *)
(* Awaiting score_leads or score_lead never suspends.                      *)
(*                                                                         *)
(* The execution of a job is a record                                      *)
(*   pc       "idle" (none yet), "created" (task made, not yet run),       *)
(*            "fetch" (suspended in get_contacts), "notify" (suspended in  *)
(*            the POST of notification number k), "done"                   *)
(*   scored   the ids and tiers of scored_leads, in their order            *)
(*   hot      the ids of hot_leads, in their order                         *)
(*   k        the notification under way: 1..Len(hot) a hot lead's,        *)
(*            Len(hot) + 1 the summary                                     *)
(*   failed   get_contacts caught an error and returned []                 *)
(*   trace    history: the steps taken, in their order                     *)
(*   outcome  "none", "returned", "logged" (the except branch ran),        *)
(*            "raised" (an error left the coroutine), "cancelled"          *)
(*   at       history: the pc at which the execution was cancelled         *)
(*   prev     history: the outcome of the job's execution before this one  *)

NoRun == NoExecution

InFlight(run) == run.pc \in {"created", "fetch", "notify"}

\* One step of the trace.  `posted`: an HTTP POST reached the webhook.
Step(name, lead, posted, ok) ==
    [step |-> name, lead |-> lead, posted |-> posted, ok |-> ok]

\* The notification calls suspend: they make the HTTP POST.
Posts(d) == ~d.demo_mode /\ d.slack_webhook_url

\* What notify_hot_lead and notify_score_update return without a POST:
\* True in demo mode, False when no webhook URL is configured.
ReturnsUnposted(d) == d.demo_mode

\* except Exception as e: every error but those that are not Exceptions
\* (asyncio.CancelledError is a BaseException).
\* (Faulty variant: the body of the callback without its try/except.)
CaughtByNothing(exc) == FALSE
Caught(exc) == exc # "CancelledError"

\* hot_leads = [sl for sl in scored_leads if sl.score_category.value == "hot"]
HotLeads(scored) == SelectSeq(scored, LAMBDA sl : sl.score_category = HOT)

\* The loop over hot_leads, then the summary, when no call suspends.
\* (Faulty variant: the summary is sent ahead of the loop.)
NotifyEach(hot, ok) ==
    [i \in 1..Len(hot) |-> Step("notify_hot_lead", hot[i], FALSE, ok)]
SummaryThenEach(hot, ok) ==
    <<Step("notify_score_update", "", FALSE, ok)>> \o NotifyEach(hot, ok)
Notifications(hot, ok) ==
    NotifyEach(hot, ok) \o <<Step("notify_score_update", "", FALSE, ok)>>

\* The notification the callback makes after notification k has returned
\* `ok`: the next one, whatever was returned.
\* (Faulty variant: a notification that returned False is made again.)
RetryFailed(k, ok) == IF ok THEN k + 1 ELSE k
NextNotification(k, ok) == k + 1

\* The callback from the return of get_contacts to its next suspension or
\* its end: score_leads, then the notifications.
AfterFetch(run, d, s, leads, failed) ==
    LET fetched == Append(run.trace, Step("get_contacts", "", FALSE, ~failed))
    IN  IF score_leads_raises(leads)
        THEN [run EXCEPT !.pc = "done", !.failed = failed,
                         !.trace = Append(fetched, Step("score_leads", "", FALSE, FALSE)),
                         !.outcome = IF Caught("TypeError") THEN "logged" ELSE "raised"]
        ELSE LET scored_leads == score_leads(LeadScorer(s), s, leads)
                 scored == [i \in 1..Len(scored_leads) |->
                               [id |-> scored_leads[i].lead.id,
                                score_category |-> scored_leads[i].score_category]]
                 hot_leads == HotLeads(scored)
                 hot == [i \in 1..Len(hot_leads) |-> hot_leads[i].id]
                 done == Append(fetched, Step("score_leads", "", FALSE, TRUE))
             IN  IF Posts(d)
                 THEN [run EXCEPT !.pc = "notify", !.failed = failed,
                                  !.scored = scored, !.hot = hot, !.k = 1,
                                  !.trace = done]
                 ELSE [run EXCEPT !.pc = "done", !.failed = failed,
                                  !.scored = scored, !.hot = hot,
                                  !.k = Len(hot) + 1,
                                  !.trace = done \o Notifications(hot, ReturnsUnposted(d)),
                                  !.outcome = "returned"]

\* AsyncIOExecutor.shutdown: every pending future that is not done is
\* cancelled.  The CancelledError reaches the coroutine at the call it is
\* suspended in (a task not yet run never starts); no except clause of the
\* callback or of the two clients catches it.
\* (Faulty variant: shutdown leaves the pending futures alone.)
LeavePending(r) == r
CancelPending(r) ==
    [id \in JobIds |->
        IF InFlight(r[id]) /\ ~Caught("CancelledError")
        THEN [r[id] EXCEPT !.pc = "done", !.outcome = "cancelled", !.at = r[id].pc]
        ELSE r[id]]

\* ScoringScheduler.start: add_job(score_refresh, replace_existing=True),
\* then scheduler.start().
Start ==
    /\ IF StartRaises(sched)
       THEN /\ jobstore' = RealAddJob(jobstore, ScoreRefreshJob)
            /\ ret' = [op |-> "start", was |-> sched,
                       result |-> "SchedulerAlreadyRunningError"]
            /\ UNCHANGED <<sched, pending>>
       ELSE /\ jobstore' = AddPending(jobstore, Append(pending, ScoreRefreshJob))
            /\ pending' = <<>>
            /\ sched' = "running"
            /\ ret' = [op |-> "start", was |-> sched, result |-> "ok"]
    /\ UNCHANGED <<firings, trig, deploy, runs>>
    /\ UNCHANGED scoreVars

\* ScoringScheduler.stop: scheduler.shutdown(), which shuts the executor
\* and the job store down.
Stop ==
    /\ IF sched = "stopped"
       THEN /\ ret' = [op |-> "stop", was |-> sched,
                       result |-> "SchedulerNotRunningError"]
            /\ UNCHANGED <<sched, jobstore, runs>>
       ELSE /\ sched' = "stopped"
            /\ jobstore' = <<>>
            /\ runs' = CancelPending(runs)
            /\ ret' = [op |-> "stop", was |-> sched, result |-> "ok"]
    /\ UNCHANGED <<pending, firings, trig, deploy>>
    /\ UNCHANGED scoreVars

\* ScoringScheduler.trigger_immediate_refresh:
\* add_job(immediate_refresh, replace_existing=True)
TriggerImmediateRefresh ==
    /\ trig.calls < MaxCalls
    /\ IF sched = "stopped"
       THEN /\ Len(pending) < MaxPending
            /\ pending' = Append(pending, ImmediateRefreshJob)
            /\ UNCHANGED jobstore
       ELSE /\ jobstore' = RealAddJob(jobstore, ImmediateRefreshJob)
            /\ UNCHANGED pending
    /\ trig' = [calls |-> trig.calls + 1,
                bursts |-> IF ImmediateWaiting THEN trig.bursts
                           ELSE trig.bursts + 1]
    /\ ret' = [op |-> "trigger_immediate_refresh", was |-> sched, result |-> "ok"]
    /\ UNCHANGED <<sched, firings, deploy, runs>>
    /\ UNCHANGED scoreVars

\* The executor is handed a job: a task is made for the callback, unless an
\* execution of the same job is still under way (max_instances is 1).
\* (Faulty variant: one lock over both jobs, a job waiting for any execution.)
BusyWithAnyJob(r, id) == \E j \in DOMAIN r : InFlight(r[j])
Busy(r, id) == InFlight(r[id])

Submit(id) ==
    IF Busy(runs, id)
    THEN UNCHANGED <<firings, runs>>
    ELSE /\ firings' = [firings EXCEPT ![id] = @ + 1]
         /\ runs' = [runs EXCEPT ![id] = [NoRun EXCEPT !.pc = "created",
                                                       !.prev = runs[id].outcome]]

\* The interval timer of score_refresh comes due: the job is submitted and
\* stays in the store with its next run time.
FireScoreRefresh ==
    /\ sched = "running"
    /\ JobCount(jobstore, "score_refresh") > 0
    /\ firings.score_refresh < MaxFirings
    /\ ~InFlight(runs.score_refresh)
    /\ Submit("score_refresh")
    /\ UNCHANGED <<sched, jobstore, pending, trig, ret, deploy>>
    /\ UNCHANGED scoreVars

\* A sequence of jobs without its first job of the given id.
WithoutFirst(jobs, id) ==
    LET k == CHOOSE i \in 1..Len(jobs) :
                 jobs[i].id = id /\ \A h \in 1..(i - 1) : jobs[h].id # id
    IN  SubSeq(jobs, 1, k - 1) \o SubSeq(jobs, k + 1, Len(jobs))

\* The scheduler processes a one-shot job: it leaves the store and is
\* submitted.
FireImmediateRefresh ==
    /\ sched = "running"
    /\ JobCount(jobstore, "immediate_refresh") > 0
    /\ firings.immediate_refresh < MaxFirings
    /\ jobstore' = WithoutFirst(jobstore, "immediate_refresh")
    /\ Submit("immediate_refresh")
    /\ UNCHANGED <<sched, pending, trig, ret, deploy>>
    /\ UNCHANGED scoreVars

\* The scheduler processes a one-shot job more than misfire_grace_time
\* after its run date: it leaves the store and the run is skipped.
MisfireImmediateRefresh ==
    /\ sched = "running"
    /\ JobCount(jobstore, "immediate_refresh") > 0
    /\ jobstore' = WithoutFirst(jobstore, "immediate_refresh")
    /\ UNCHANGED <<sched, pending, firings, trig, ret, deploy, runs>>
    /\ UNCHANGED scoreVars

\* The task of an execution gets to run: the callback builds its three
\* clients (get_settings returns the cached object) and calls get_contacts,
\* which in demo mode returns the demo contacts at once and otherwise
\* suspends in its HTTP GET.
RunCallback(id) ==
    /\ runs[id].pc = "created"
    /\ runs' = [runs EXCEPT ![id] =
                   IF deploy.demo_mode
                   THEN AfterFetch(@, deploy, get_settings(settings, env), crm, FALSE)
                   ELSE [@ EXCEPT !.pc = "fetch"]]
    /\ UNCHANGED <<sched, jobstore, pending, firings, trig, ret, deploy>>
    /\ UNCHANGED scoreVars

\* The HTTP GET of get_contacts ends: with the contacts, or with an error
\* (no connection, an error status, a payload that does not parse) that
\* get_contacts logs, returning [].
GetContactsReturns(id) ==
    /\ runs[id].pc = "fetch"
    /\ \E failed \in BOOLEAN :
          runs' = [runs EXCEPT ![id] =
                      AfterFetch(@, deploy, get_settings(settings, env),
                                 IF failed THEN <<>> ELSE crm, failed)]
    /\ UNCHANGED <<sched, jobstore, pending, firings, trig, ret, deploy>>
    /\ UNCHANGED scoreVars

\* The HTTP POST of a notification ends: delivered (True) or not (the
\* error is logged, False).  The callback goes on to the next hot lead,
\* then to the summary, then returns.
NotifyReturns(id) ==
    /\ runs[id].pc = "notify"
    /\ \E ok \in BOOLEAN :
          LET run == runs[id]
              n == Len(run.hot)
              step == IF run.k <= n
                      THEN Step("notify_hot_lead", run.hot[run.k], TRUE, ok)
                      ELSE Step("notify_score_update", "", TRUE, ok)
          IN  runs' = [runs EXCEPT ![id] =
                          IF run.k <= n
                          THEN [@ EXCEPT !.k = NextNotification(@, ok),
                                         !.trace = Append(@, step)]
                          ELSE [@ EXCEPT !.pc = "done", !.outcome = "returned",
                                         !.trace = Append(@, step)]]
    /\ UNCHANGED <<sched, jobstore, pending, firings, trig, ret, deploy>>
    /\ UNCHANGED scoreVars

RunCallbacks == \E id \in JobIds : RunCallback(id)
GetContactsReturn == \E id \in JobIds : GetContactsReturns(id)
NotifyReturn == \E id \in JobIds : NotifyReturns(id)

\* ScoringScheduler(callback): __init__ has called get_settings().
PoolLead(id) == CHOOSE l \in LeadPool : l.id = id

\* A lead whose lastmodifieddate came with a UTC offset ("...Z").
Zoned == Lead("zoned", 0, None, 5, 0, None, 6, Some("customer"), Some(5000), Aware(2))

\* _get_demo_contacts
DemoContacts ==
    << Lead("demo-1", 15, HoursAgo(2), 8, 12, HoursAgo(4), 6, Some("opportunity"), Some(250), HoursAgo(2)),
       Lead("demo-2", 3, DaysAgo(7), 1, 2, DaysAgo(10), 1, Some("qualified"), Some(25), DaysAgo(7)),
       Lead("demo-3", 22, HoursAgo(1), 12, 18, HoursAgo(3), 10, Some("opportunity"), Some(5000), HoursAgo(1)),
       Lead("demo-4", 1, DaysAgo(30), 0, 1, DaysAgo(45), 0, Some("subscriber"), Some(5), DaysAgo(30)),
       Lead("demo-5", 10, HoursAgo(12), 6, 8, HoursAgo(18), 4, Some("opportunity"), Some(150), HoursAgo(12)) >>

\* The contacts the CRM holds when demo mode is off.
Upstream ==
    { <<>>,
      <<PoolLead("high"), PoolLead("warm"), PoolLead("edge")>>,
      <<PoolLead("high"), Zoned>> }

SchedulerInit ==
    /\ env = DefaultWeights
    /\ settings = NewSettings(env)
    /\ scorer = NoScorer
    /\ deploy \in Deployments
    /\ crm \in IF deploy.demo_mode THEN {DemoContacts} ELSE Upstream
    /\ out = Idle
    /\ stale = FALSE
    /\ SchedInit

SchedulerNext ==
    \/ Start
    \/ Stop
    \/ TriggerImmediateRefresh
    \/ FireScoreRefresh
    \/ FireImmediateRefresh
    \/ MisfireImmediateRefresh
    \/ RunCallbacks
    \/ GetContactsReturn
    \/ NotifyReturn

SchedulerSpec == SchedulerInit /\ [][SchedulerNext]_vars

---------------------------------------------------------------------------
(* score_lead as a function of its inputs: one lead drawn from a product   *)
(* of feature values, under every valid weight configuration and every     *)
(* threshold pair update_alert_config accepts.                             *)

FeaturePool ==
    { Lead("x", opens, openAge, clicks, visits, visitAge, crmActs, stage, size, age) :
        opens \in {-2, 0, 4, 10}, openAge \in {None, DaysAgo(3), DaysAgo(10)},
        clicks \in {-5, 0, 5},
        visits \in {0, 8}, visitAge \in {None, DaysAgo(2)},
        crmActs \in {0, 2, 6},
        stage \in {None, Some("CUSTOMER"), Some("subscriber")},
        size \in {None, Some(5000)},
        age \in {None, HoursAgo(0)} }

AcceptedConfigs ==
    {c \in AlertConfigs : ~AlertConfigInvalid(c) /\ ~ThresholdsRejected(c)}

ScoreInit ==
    /\ env \in ValidWeightConfigs
    /\ \E c \in AcceptedConfigs : settings = AssignThresholds(NewSettings(env), c)
    /\ scorer = LeadScorer(settings)
    /\ \E lead \in FeaturePool : crm = <<lead>>
    /\ out = Idle
    /\ stale = FALSE
    /\ deploy = DefaultDeployment
    /\ SchedInit

ScoreNext == ScoreOneLead

ScoreSpec == ScoreInit /\ [][ScoreNext]_vars

---------------------------------------------------------------------------
(* score_leads over batches of leads whose optional fields are absent or   *)
(* unusual, under the default configuration.                               *)

\*   bare:     only the required fields
\*   odd:      an unknown deal stage, company size 0, timestamps in the
\*             future, a negative count
\*   unopened: a last_email_open with a time zone, but no opens
\*   zoned:    a last_activity with a time zone
\*   edge, twin: two leads with the same score
BatchPool ==
    { PoolLead("bare"), PoolLead("edge"), PoolLead("twin"),
      Lead("odd", 3, HoursAgo(-5), -1, 2, None, 0, Some("evangelist"), Some(0), HoursAgo(-30)),
      Lead("unopened", 0, Aware(3), 1, 0, None, 2, None, Some(-4), None),
      Zoned }

BatchInit ==
    /\ env = DefaultWeights
    /\ settings = NewSettings(env)
    /\ scorer = LeadScorer(settings)
    /\ crm \in {l \in ContactListsOf(BatchPool, MaxLeads) : DistinctIds(l)}
    /\ out = Idle
    /\ stale = FALSE
    /\ deploy = DefaultDeployment
    /\ SchedInit

BatchNext == ScoreOneLead \/ ScoreLeads

BatchSpec == BatchInit /\ [][BatchNext]_vars

---------------------------------------------------------------------------
(* score_leads over two leads that are the same but for one field: the     *)
(* last_activity, or one of the four engagement counts.                    *)

CountFields == {"email_opens", "email_clicks", "website_visits", "crm_activities"}

\* Ages of last_activity in hours, on both sides of every day boundary the
\* recency scorer tells apart, and none.
Ages ==
    {None} \cup {HoursAgo(h) : h \in {-30, 0, 23, 24, 36, 47, 48, 72, 95, 96,
                                      168, 191, 192, 336, 359, 360, 720, 743,
                                      744, 1080}}

Counts == {-3, 0, 1, 2, 4, 5, 6, 8, 9, 10, 12}

\* The fields held fixed: with recent, with older and without timestamps.
PairBases ==
    { Lead("base", 4, DaysAgo(3), 2, 4, DaysAgo(2), 3, Some("lead"), Some(40), DaysAgo(2)),
      Lead("base", 4, DaysAgo(20), 2, 4, DaysAgo(5), 3, Some("lead"), Some(40), DaysAgo(20)),
      Lead("base", 4, None, 2, 4, None, 3, None, None, None) }

RecencyPairs ==
    { << [base EXCEPT !.id = "a", !.last_activity = x],
         [base EXCEPT !.id = "b", !.last_activity = y] >> :
        base \in PairBases, x \in Ages, y \in Ages }

CountPairs ==
    UNION { { << [base EXCEPT !.id = "a", ![f] = m],
                 [base EXCEPT !.id = "b", ![f] = n] >> :
                base \in PairBases, m \in Counts, n \in Counts } :
            f \in CountFields }

PairInit ==
    /\ env = DefaultWeights
    /\ settings = NewSettings(env)
    /\ scorer = LeadScorer(settings)
    /\ crm \in RecencyPairs \cup CountPairs
    /\ out = Idle
    /\ stale = FALSE
    /\ deploy = DefaultDeployment
    /\ SchedInit

PairNext == ScoreOneLead \/ ScoreLeads

PairSpec == PairInit /\ [][PairNext]_vars

---------------------------------------------------------------------------
(* The example leads of tests/test_scorer.py, scored one by one and as the *)
(* batch of test_score_multiple_leads, while update_alert_config may move  *)
(* the thresholds away from their defaults.                                *)

\* high_engagement_lead, with the company sizes of the top two brackets.
HighEngagementLeads ==
    { Lead("test-high", 15, HoursAgo(2), 8, 12, HoursAgo(4), 6,
           Some("opportunity"), Some(size), HoursAgo(2)) :
        size \in {250, 500, 1000, 1001, 5000} }

\* low_engagement_lead, and the same lead without its one open (stale or
\* never) and without its one visit.
LowEngagementLeads ==
    { Lead("test-low", opens, openAge, 0, visits, None, 0,
           Some("subscriber"), Some(5), DaysAgo(45)) :
        opens \in {0, 1}, openAge \in {None, DaysAgo(45)}, visits \in {0, 1} }

ExamplePool == HighEngagementLeads \cup LowEngagementLeads

ExampleInit ==
    /\ env = DefaultWeights
    /\ settings = NewSettings(env)
    /\ scorer = LeadScorer(settings)
    /\ crm \in {l \in ContactListsOf(ExamplePool, MaxLeads) : DistinctIds(l)}
    /\ out = Idle
    /\ stale = FALSE
    /\ deploy = DefaultDeployment
    /\ SchedInit

ExampleNext == UpdateAlertConfig \/ ScoreOneLead \/ ScoreLeads

ExampleSpec == ExampleInit /\ [][ExampleNext]_vars

---------------------------------------------------------------------------
(* api/leads.py: GET /api/leads/{lead_id}.  The handler fetches every      *)
(* contact, takes the first one with the id, and scores it with a          *)
(* LeadScorer made for the request.  Its only suspension is the HTTP GET   *)
(* of get_contacts, and it reads nothing before that GET that another      *)
(* request could change, so the request is one step.                       *)

\* HubSpotClient.get_contacts: the demo contacts in demo mode; otherwise
\* the contacts of the CRM, or [] when the request raised (failed).
get_contacts(d, contacts, failed) ==
    IF ~d.demo_mode /\ failed THEN <<>> ELSE contacts

\* next((l for l in leads if l.id == lead_id), None)
FirstWithId(leads, lead_id) ==
    LET at == {i \in 1..Len(leads) : leads[i].id = lead_id}
    IN  IF at = {} THEN None
        ELSE Some(leads[CHOOSE i \in at : \A j \in at : i <= j])

\* The status the handler answers with when its try block raised exc
\* ("none": it returned).  An HTTPException is raised again as it is, any
\* other Exception becomes HTTPException(500).
\* (Faulty variant: the handler without its "except HTTPException: raise".)
HandlerStatusWithoutReraise(exc) == IF exc = "none" THEN "200" ELSE "500"
HandlerStatus(exc) ==
    CASE exc = "none" -> "200"
      [] exc = "HTTPException(404)" -> "404"
      [] OTHER -> "500"

get_lead_score(lead_id, failed) ==
    /\ settings.cached
    /\ failed => ~deploy.demo_mode
    /\ LET leads == get_contacts(deploy, crm, failed)
           lead == FirstWithId(leads, lead_id)
           exc == IF IsNone(lead) THEN "HTTPException(404)"
                  ELSE IF score_lead_raises(Get(lead)) THEN "TypeError"
                  ELSE "none"
       IN  out' = [Idle EXCEPT
                     !.op = "get_lead_score",
                     !.lead_id = lead_id,
                     !.fetched = leads,
                     !.status = HandlerStatus(exc),
                     !.scored = IF exc = "none"
                                THEN <<score_lead(LeadScorer(settings), settings,
                                                  Get(lead))>>
                                ELSE <<>>]
    /\ UNCHANGED <<env, settings, scorer, crm, stale>>
    /\ UNCHANGED schedVars

\* The ids asked for: ids of the pool, of the demo contacts, and one that
\* no contact has.
LookupIds == {"high", "low", "zoned", "demo-1", "demo-4", "nobody"}

GetLeadScore == \E lead_id \in LookupIds, failed \in BOOLEAN :
                    get_lead_score(lead_id, failed)

LookupPool == {PoolLead("high"), PoolLead("low"), PoolLead("warm"), Zoned}

\* The application after startup (lifespan has called get_settings), in
\* each deployment, with the contacts its get_contacts reads.
LookupInit ==
    /\ env = DefaultWeights
    /\ settings = NewSettings(env)
    /\ scorer = NoScorer
    /\ deploy \in Deployments
    /\ crm \in IF deploy.demo_mode THEN {DemoContacts}
               ELSE {l \in ContactListsOf(LookupPool, MaxLeads) : DistinctIds(l)}
    /\ out = Idle
    /\ stale = FALSE
    /\ SchedInit

LookupNext == GetLeadScore \/ UpdateAlertConfig

LookupSpec == LookupInit /\ [][LookupNext]_vars

---------------------------------------------------------------------------
(* Threshold updates racing with batches: POST /api/alerts/config arrives  *)
(* while executions of the refresh callback are suspended in their HTTP    *)
(* GET or in a notification, and between score_leads calls made for API    *)
(* requests.  A score_leads call is part of one step: score_leads and      *)
(* score_lead are coroutines that await nothing that suspends, so the      *)
(* event loop runs no other handler until the call has returned.           *)

\* The contacts the CRM holds when demo mode is off: leads that the
\* accepted threshold pairs classify differently.
RaceUpstream ==
    { <<PoolLead("warm"), PoolLead("low")>>,
      <<PoolLead("high"), PoolLead("warm"), PoolLead("low")>> }

RaceInit ==
    /\ env = DefaultWeights
    /\ settings = NewSettings(env)
    /\ scorer = LeadScorer(settings)
    /\ deploy \in Deployments
    /\ crm \in IF deploy.demo_mode THEN {DemoContacts} ELSE RaceUpstream
    /\ out = Idle
    /\ stale = FALSE
    /\ SchedInit

RaceNext ==
    \/ Start
    \/ FireScoreRefresh
    \/ RunCallbacks
    \/ GetContactsReturn
    \/ NotifyReturn
    \/ UpdateAlertConfig
    \/ ScoreLeads

RaceSpec == RaceInit /\ [][RaceNext]_vars

---------------------------------------------------------------------------
(* score_leads over batches that hold leads whose final scores differ by   *)
(* less than the rounding step, on either side of a threshold.             *)

\* Under the weights Skewed (clicks 0.7499, crm_activities 0.0002):
\*   nearly:  final_score 74.99667, rounded 75.0
\*   exact:   final_score 75.0
\*   above:   final_score 75.01
OrderPool ==
    { Lead("nearly", 0, None, 5, 0, None, 2, None, None, None),
      Lead("exact", 0, None, 5, 0, None, 3, None, None, None),
      Lead("above", 0, None, 5, 0, None, 6, None, None, None),
      PoolLead("high"), PoolLead("low"), PoolLead("warm"), PoolLead("edge") }

OrderInit ==
    /\ env \in {DefaultWeights, Skewed}
    /\ settings = NewSettings(env)
    /\ scorer = LeadScorer(settings)
    /\ crm \in {l \in ContactListsOf(OrderPool, MaxLeads) : DistinctIds(l)}
    /\ out = Idle
    /\ stale = FALSE
    /\ deploy = DefaultDeployment
    /\ SchedInit

OrderNext == ScoreOneLead \/ ScoreLeads

OrderSpec == OrderInit /\ [][OrderNext]_vars

---------------------------------------------------------------------------
(* Properties of the scoring side.                                         *)

Scored(op) == out.op = op /\ out.status = "ok"

\* The unrounded final_score of a lead under the scorer's weights.
FinalScore(lead) == Normalize(TotalScore(scorer, lead))

\* The thresholds of the cached Settings, in hundredths of a point.
HotCenti == 100 * settings.hot_lead_threshold
WarmCenti == 100 * settings.warm_lead_threshold

\* C1.  Under every weight configuration that passes validate_weights, the
\* score of the LeadScore that score_lead returns lies in 0..100 (here
\* 0..10000 hundredths), also when every sub-score is 1.0 and the weights
\* sum to more than 1.0, and when counts or weights are negative.
C1_ScoreWithinBounds ==
    Scored("score_lead") =>
        /\ out.scored[1].score >= 0
        /\ out.scored[1].score <= 100 * 100

\* C1 witness: every sub-score saturated under weights summing to 1.0005:
\* total_score * 100 is 100.05 and the score returned is 100.
C1_Witness ==
    /\ Scored("score_lead")
    /\ env = Overweight
    /\ \A f \in Features : out.scored[1].score_breakdown[f] = One
    /\ TotalScore(scorer, crm[1]) > 100 * PointUnit
    /\ out.scored[1].score = 100 * 100

\* C2 (as claimed).  The tier of a returned LeadScore agrees with the score
\* carried in the same LeadScore: HOT iff score >= hot_lead_threshold, WARM
\* iff warm_lead_threshold <= score < hot_lead_threshold, COLD iff score <
\* warm_lead_threshold.
C2_TierAgreesWithCarriedScore ==
    Scored("score_lead") =>
        LET r == out.scored[1]
        IN  /\ r.score_category = HOT <=> r.score >= HotCenti
            /\ r.score_category = WARM <=>
                   (r.score >= WarmCenti /\ r.score < HotCenti)
            /\ r.score_category = COLD <=> r.score < WarmCenti

\* C3.  The list score_leads returns is in descending order of score, and
\* leads of equal score keep the relative order they had in the input.
InputIndex(id) == CHOOSE i \in 1..Len(crm) : crm[i].id = id

C3_SortedDescendingStable ==
    Scored("score_leads") =>
        \A i, j \in 1..Len(out.scored) :
            i < j =>
                /\ out.scored[i].score >= out.scored[j].score
                /\ out.scored[i].score = out.scored[j].score =>
                       InputIndex(out.scored[i].lead.id)
                           < InputIndex(out.scored[j].lead.id)

\* C3 witness: a batch of two different leads with the same score.
C3_Witness ==
    /\ Scored("score_leads")
    /\ Len(out.scored) >= 2
    /\ out.scored[1].score = out.scored[2].score
    /\ out.scored[1].lead # out.scored[2].lead

\* C4.  Whatever updates were requested, accepted or rejected, the live
\* thresholds satisfy warm < hot and both lie in 0..100.
C4_ThresholdInvariant ==
    /\ settings.warm_lead_threshold < settings.hot_lead_threshold
    /\ settings.hot_lead_threshold \in 0..100
    /\ settings.warm_lead_threshold \in 0..100

\* C4 witness: a rejected request arriving after an accepted one changed
\* both thresholds.
C4_Witness ==
    /\ out.op = "update_alert_config"
    /\ out.status \in {"400", "422"}
    /\ settings.hot_lead_threshold # HotDefault
    /\ settings.warm_lead_threshold # WarmDefault

\* C5.  An update whose warm_threshold >= hot_threshold is answered with an
\* error and leaves both live thresholds as they were; an update with
\* warm_threshold < hot_threshold and both in 0..100 is accepted and sets
\* both thresholds to the requested values.
C5_RejectOrApplyBoth ==
    [][ out'.op = "update_alert_config" /\ out' # out =>
          LET c == out'.config
          IN  /\ c.warm_threshold >= c.hot_threshold =>
                    /\ out'.status \in {"400", "422"}
                    /\ settings'.hot_lead_threshold = settings.hot_lead_threshold
                    /\ settings'.warm_lead_threshold = settings.warm_lead_threshold
              /\ (c.warm_threshold < c.hot_threshold /\ ~AlertConfigInvalid(c)) =>
                    /\ out'.status = "200"
                    /\ settings'.hot_lead_threshold = c.hot_threshold
                    /\ settings'.warm_lead_threshold = c.warm_threshold
      ]_vars

\* C5 witness: warm = hot was requested and answered 400 while the live
\* thresholds still hold the pair an earlier request set.
C5_Witness ==
    /\ out.op = "update_alert_config"
    /\ out.status = "400"
    /\ out.config.warm_threshold = out.config.hot_threshold
    /\ settings.hot_lead_threshold = 50
    /\ settings.warm_lead_threshold = 0

\* C6.  A score_lead call classifies with the thresholds that are live at
\* the time of the call, also on a LeadScorer built before the thresholds
\* were updated.
TierUnder(hot, warm, final_score) ==
    IF final_score >= hot * PointUnit THEN HOT
    ELSE IF final_score >= warm * PointUnit THEN WARM
    ELSE COLD

C6_LiveThresholds ==
    Scored("score_lead") =>
        out.scored[1].score_category =
            TierUnder(settings.hot_lead_threshold, settings.warm_lead_threshold,
                      FinalScore(out.scored[1].lead))

\* C6 witness: the scorer was built, the thresholds were then changed, and
\* the call returned a tier other than the one the old thresholds give.
C6_Witness ==
    /\ Scored("score_lead")
    /\ stale
    /\ out.scored[1].score_category #
           TierUnder(HotDefault, WarmDefault, FinalScore(out.scored[1].lead))

\* C7.  With weights that do not sum to 1.0 within 0.001, LeadScorer()
\* raises and no lead is ever scored; with weights that do, it succeeds.
C7_InvalidWeightsNeverScore ==
    /\ WeightsInvalid(env) =>
           /\ ~scorer.made
           /\ out.op \notin {"score_lead", "score_leads"}
           /\ out.op = "LeadScorer" => out.status = "ValueError"
    /\ (~WeightsInvalid(env) /\ out.op = "LeadScorer") =>
           /\ out.status = "ok"
           /\ scorer.made

\* C7 witness: LeadScorer() raised under weights summing to 0.5.
C7_Witness ==
    /\ env = Half
    /\ out.op = "LeadScorer"
    /\ out.status = "ValueError"

---------------------------------------------------------------------------
(* Properties of the scheduler.                                            *)

\* The jobs due to run: those of the job store, with the jobs queued on a
\* scheduler that is not started entered the way start() will enter them.
Scheduled == AddPending(jobstore, pending)

C9_OneScoreRefreshJob ==
    JobCount(jobstore, "score_refresh") + JobCount(pending, "score_refresh") <= 1

\* C9 witness: start was called on the running scheduler, which scheduled
\* score_refresh a second time, and the store holds one such job.
C9_Witness ==
    /\ ret.op = "start"
    /\ ret.was = "running"
    /\ JobCount(jobstore, "score_refresh") = 1

\* C10.  The scheduler is stopped or running and nothing else; start takes
\* it from stopped to running, stop from running to stopped, no other call
\* changes the state, and start on a running scheduler raises.
C10_TwoStates ==
    /\ sched \in {"stopped", "running"}
    /\ (ret.op = "start" /\ ret.was = "stopped") =>
           ret.result = "ok" /\ sched = "running"
    /\ (ret.op = "start" /\ ret.was = "running") =>
           ret.result = "SchedulerAlreadyRunningError" /\ sched = "running"
    /\ (ret.op = "stop" /\ ret.was = "running") =>
           ret.result = "ok" /\ sched = "stopped"
    /\ (ret.op = "stop" /\ ret.was = "stopped") => sched = "stopped"
    /\ ret.op = "trigger_immediate_refresh" => sched = ret.was

\* C10 witness: start on the running scheduler raised.
C10_Witness ==
    /\ ret.op = "start"
    /\ ret.was = "running"
    /\ ret.result = "SchedulerAlreadyRunningError"
    /\ firings.score_refresh > 0

---------------------------------------------------------------------------
(* Properties of the refresh callback under the scheduler.                 *)

StepsNamed(t, name) == {i \in 1..Len(t) : t[i].step = name}

\* The notify_hot_lead calls of a trace, in their order.
Alerts(t) == SelectSeq(t, LAMBDA e : e.step = "notify_hot_lead")

\* C11.  No error raised inside an execution of the refresh callback leaves
\* it: an execution never ends with a raised error (the error of scoring is
\* logged by the except branch; the errors of the fetch and of the
\* notifications are caught inside the clients).  After an execution whose
\* except branch ran, the score_refresh job is still in the store of the
\* running scheduler, due to fire again.
C11_ErrorsContained ==
    /\ \A id \in JobIds : runs[id].outcome # "raised"
    /\ (\E id \in JobIds : "logged" \in {runs[id].outcome, runs[id].prev})
       /\ sched = "running"
           => JobCount(jobstore, "score_refresh") = 1

\* The score_refresh job has fired again after an execution of it failed
\* in scoring and was logged.
C11_Witness ==
    /\ runs.score_refresh.prev = "logged"
    /\ runs.score_refresh.pc = "done"
    /\ firings.score_refresh = 2

\* C12.  While the scheduler is stopped no execution of the callback
\* begins: no job is submitted (the count of executions begun, per job id,
\* stays) and no task made before the stop gets to run.
C12_NoFiringAfterStop ==
    [][sched = "stopped" =>
          /\ firings' = firings
          /\ \A id \in JobIds :
                /\ runs'[id].pc = "created" => runs[id].pc = "created"
                /\ runs[id].pc = "created" => runs'[id].pc = "created"]_vars

\* stop() has returned on a scheduler that had started executions of both
\* jobs; the task made for the one-shot job had not run yet and never will.
C12_Witness ==
    /\ ret.op = "stop" /\ ret.result = "ok" /\ sched = "stopped"
    /\ firings.score_refresh >= 1
    /\ runs.immediate_refresh.at = "created"

\* C13.  An execution of the callback that is suspended in get_contacts or
\* in a notification when stop() is called is not cancelled.
C13_InFlightNotCancelled ==
    \A id \in JobIds : runs[id].at \notin {"fetch", "notify"}

\* C14.  The steps of one execution come in the order get_contacts,
\* score_leads, one notify_hot_lead per hot lead, notify_score_update: no
\* hot lead is notified before score_leads has returned, the summary comes
\* at most once and after the notification of every hot lead has returned,
\* and an execution that returns has sent it.
C14_StepsInOrder ==
    \A id \in JobIds :
        LET t == runs[id].trace
            n == Len(runs[id].hot)
        IN  /\ \A i \in 1..Len(t) :
                  /\ t[i].step = "get_contacts" <=> i = 1
                  /\ t[i].step = "score_leads" <=> i = 2
                  /\ t[i].step = "notify_hot_lead" <=> (2 < i /\ i <= 2 + n)
                  /\ t[i].step = "notify_score_update" <=> i = 3 + n
            /\ Len(t) > 2 => t[2].ok
            /\ Cardinality(StepsNamed(t, "notify_score_update")) <= 1
            /\ runs[id].outcome = "returned" => Len(t) = 3 + n

\* An execution has returned after notifying two hot leads, the second of
\* them over HTTP after the first had failed, and then the summary.
C14_Witness ==
    \E id \in JobIds :
        LET t == runs[id].trace
        IN  /\ runs[id].outcome = "returned"
            /\ Len(runs[id].hot) = 2
            /\ Len(t) = 5
            /\ t[3].posted /\ ~t[3].ok
            /\ t[5].step = "notify_score_update" /\ t[5].ok

\* C15.  An execution whose get_contacts failed (and returned []) posts
\* nothing to the webhook: no hot-lead alert and no summary.
C15_NothingSentAfterFailedFetch ==
    \A id \in JobIds :
        runs[id].failed =>
            \A i \in 1..Len(runs[id].trace) : ~runs[id].trace[i].posted

\* C16.  A notification that is not delivered returns False: no execution
\* ends with a raised error.  The hot leads notified so far are the first
\* of hot_leads, each once and in order, so none is notified twice and none
\* is skipped after a failure; they are the leads of scored_leads with the
\* tier HOT.  An execution that returns has notified all of them, then sent
\* the summary.
C16_EachHotLeadOnce ==
    \A id \in JobIds :
        LET run == runs[id]
            alerts == Alerts(run.trace)
            hot == SelectSeq(run.scored, LAMBDA sl : sl.score_category = HOT)
        IN  /\ run.outcome # "raised"
            /\ Len(alerts) <= Len(hot)
            /\ \A i \in 1..Len(alerts) : alerts[i].lead = hot[i].id
            /\ run.outcome = "returned" =>
                  /\ Len(alerts) = Len(hot)
                  /\ run.trace[Len(run.trace)].step = "notify_score_update"

\* An execution has returned: of three scored leads two were hot, the
\* alert for the first was not delivered, the alert for the second and the
\* summary were still attempted.
C16_Witness ==
    \E id \in JobIds :
        LET run == runs[id]
            alerts == Alerts(run.trace)
        IN  /\ run.outcome = "returned"
            /\ Len(run.scored) = 3
            /\ Len(alerts) = 2
            /\ alerts[1].posted /\ ~alerts[1].ok
            /\ alerts[2].posted /\ alerts[2].ok

---------------------------------------------------------------------------
(* Properties of score_leads over batches and pairs.                       *)

\* The LeadScore of the lead with the given id in the last result.
ScoreOf(id) == out.scored[CHOOSE j \in 1..Len(out.scored) : out.scored[j].lead.id = id]

KnownStages == {"subscriber", "lead", "marketing_qualified", "qualified",
                "opportunity", "customer"}

\* C17.  score_lead returns for every lead, whatever its optional fields
\* hold, and so does score_leads for every batch; an absent or unknown
\* deal stage scores 0.3, an absent company size 0.3, an absent
\* last_activity 0.0, and an absent last_email_open or last_website_visit
\* leaves the count's share unboosted.
C17_NeverFailsOnOptionalFields ==
    out.op \in {"score_lead", "score_leads"} =>
        /\ out.status = "ok"
        /\ \A j \in 1..Len(out.scored) :
              LET lead == out.scored[j].lead
                  b == out.scored[j].score_breakdown
              IN  /\ IsNone(lead.deal_stage) => 10 * b.deal_stage = 3 * One
                  /\ (~IsNone(lead.deal_stage)
                        /\ Lower(Get(lead.deal_stage)) \notin KnownStages)
                         => 10 * b.deal_stage = 3 * One
                  /\ (IsNone(lead.last_email_open) /\ lead.email_opens > 0)
                         => 10 * b.email_opens = Min(10, lead.email_opens) * One
                  /\ (IsNone(lead.last_website_visit) /\ lead.website_visits > 0)
                         => 8 * b.website_visits = Min(8, lead.website_visits) * One
                  /\ IsNone(lead.company_size) => 10 * b.company_size = 3 * One
                  /\ IsNone(lead.last_activity) => b.recency = 0

\* C18.  When score_leads returns, its result holds one LeadScore for each
\* lead of the input and no other: the result is as long as the input, and
\* each input lead is found in it once, with the LeadScore score_lead gives
\* for that lead alone.  The result for no leads is the empty list.
C18_OneLeadScorePerLead ==
    Scored("score_leads") =>
        /\ Len(out.scored) = Len(crm)
        /\ \A i \in 1..Len(crm) :
              /\ Cardinality({j \in 1..Len(out.scored) :
                                 out.scored[j].lead = crm[i]}) = 1
              /\ ScoreOf(crm[i].id) =
                     [lead |-> crm[i],
                      score |-> Round2(FinalScore(crm[i])),
                      score_category |->
                          TierUnder(settings.hot_lead_threshold,
                                    settings.warm_lead_threshold, FinalScore(crm[i])),
                      score_breakdown |-> Breakdown(crm[i])]
        /\ crm = <<>> => out.scored = <<>>

\* score_leads has returned for two leads of equal score, in the order
\* they were given in.
C18_Witness ==
    /\ Scored("score_leads")
    /\ Len(crm) = 2
    /\ out.scored[1].score = out.scored[2].score
    /\ out.scored[1].lead.id = "twin"

\* The two leads of the pair differ in last_activity at most.
SameButLastActivity ==
    /\ Len(crm) = 2
    /\ [crm[1] EXCEPT !.id = "", !.last_activity = None]
         = [crm[2] EXCEPT !.id = "", !.last_activity = None]

\* a is at least as recent as b (an absent last_activity is the oldest).
AsRecent(a, b) ==
    IsNone(b.last_activity)
    \/ (~IsNone(a.last_activity) /\ Get(a.last_activity) <= Get(b.last_activity))

\* C19 as stated.  Of two leads that differ in last_activity only the more
\* recent one has the recency sub-score that is not smaller, and the
\* sub-score is 1.0 for an age of at most 1 day (24 hours), 0.8 for at most
\* 3 days, 0.6 for at most 7, 0.4 for at most 14, 0.2 for at most 30, and
\* 0.0 beyond or without last_activity.
C19_RecencyByAge ==
    (Scored("score_leads") /\ SameButLastActivity) =>
        /\ AsRecent(crm[1], crm[2]) =>
               ScoreOf(crm[1].id).score_breakdown.recency
                   >= ScoreOf(crm[2].id).score_breakdown.recency
        /\ \A i \in 1..2 :
              LET age == crm[i].last_activity
                  recency == ScoreOf(crm[i].id).score_breakdown.recency
              IN  recency = IF IsNone(age) THEN 0
                            ELSE IF Get(age) <= 24 THEN One
                            ELSE IF Get(age) <= 3 * 24 THEN (8 * One) \div 10
                            ELSE IF Get(age) <= 7 * 24 THEN (6 * One) \div 10
                            ELSE IF Get(age) <= 14 * 24 THEN (4 * One) \div 10
                            ELSE IF Get(age) <= 30 * 24 THEN (2 * One) \div 10
                            ELSE 0

\* C19, with the age counted in whole days.  Of two leads that differ in
\* last_activity only the more recent one has the recency sub-score that
\* is not smaller, and the sub-score is 1.0 when at most 1 whole day has
\* passed since last_activity (less than 48 hours), 0.8 for at most 3 whole
\* days (less than 96 hours), 0.6 for at most 7 (less than 192 hours), 0.4
\* for at most 14 (less than 360 hours), 0.2 for at most 30 (less than 744
\* hours), and 0.0 beyond or without last_activity.
C19_RecencyByWholeDays ==
    (Scored("score_leads") /\ SameButLastActivity) =>
        /\ AsRecent(crm[1], crm[2]) =>
               ScoreOf(crm[1].id).score_breakdown.recency
                   >= ScoreOf(crm[2].id).score_breakdown.recency
        /\ \A i \in 1..2 :
              LET age == crm[i].last_activity
                  recency == ScoreOf(crm[i].id).score_breakdown.recency
              IN  recency = IF IsNone(age) THEN 0
                            ELSE IF Get(age) < 48 THEN One
                            ELSE IF Get(age) < 96 THEN (8 * One) \div 10
                            ELSE IF Get(age) < 192 THEN (6 * One) \div 10
                            ELSE IF Get(age) < 360 THEN (4 * One) \div 10
                            ELSE IF Get(age) < 744 THEN (2 * One) \div 10
                            ELSE 0

\* Two leads that differ in last_activity only have been scored: 47 hours
\* ago scores 1.0, 48 hours ago scores 0.8.
C19_Witness ==
    /\ Scored("score_leads")
    /\ SameButLastActivity
    /\ crm[1].last_activity = HoursAgo(47)
    /\ crm[2].last_activity = HoursAgo(48)
    /\ ScoreOf("a").score_breakdown.recency = One
    /\ 10 * ScoreOf("b").score_breakdown.recency = 8 * One

\* The two leads of the pair differ in the count f at most.
SameButCount(f) ==
    /\ Len(crm) = 2
    /\ [crm[1] EXCEPT !.id = "", ![f] = 0] = [crm[2] EXCEPT !.id = "", ![f] = 0]

\* C20.  Of two leads that differ in one engagement count only, the one
\* with the greater count has the sub-score of that feature that is not
\* smaller; a count of 0 scores 0.0 and a positive count more than 0.
C20_CountsMonotone ==
    Scored("score_leads") =>
        \A f \in CountFields :
            SameButCount(f) =>
                /\ crm[1][f] <= crm[2][f] =>
                       ScoreOf(crm[1].id).score_breakdown[f]
                           <= ScoreOf(crm[2].id).score_breakdown[f]
                /\ \A i \in 1..2 :
                      /\ crm[i][f] = 0 => ScoreOf(crm[i].id).score_breakdown[f] = 0
                      /\ crm[i][f] > 0 => ScoreOf(crm[i].id).score_breakdown[f] > 0

\* Two leads that differ in email_opens only have been scored: 1 open
\* scores more than 0 and less than 2 opens do.
C20_Witness ==
    /\ Scored("score_leads")
    /\ SameButCount("email_opens")
    /\ crm[1].email_opens = 1 /\ crm[2].email_opens = 2
    /\ 0 < ScoreOf("a").score_breakdown.email_opens
    /\ ScoreOf("a").score_breakdown.email_opens
           < ScoreOf("b").score_breakdown.email_opens

---------------------------------------------------------------------------
(* Properties of the example leads.                                        *)

\* The call returned LeadScores, and both the weights and the thresholds
\* are the defaults of config.py.
ScoredWithDefaults ==
    /\ out.op \in {"score_lead", "score_leads"}
    /\ out.status = "ok"
    /\ scorer.weights = DefaultWeights
    /\ settings.hot_lead_threshold = HotDefault
    /\ settings.warm_lead_threshold = WarmDefault

SaturatedRecent(lead) ==
    /\ lead.email_opens = 15 /\ lead.last_email_open = HoursAgo(2)
    /\ lead.email_clicks = 8
    /\ lead.website_visits = 12 /\ lead.last_website_visit = HoursAgo(4)
    /\ lead.crm_activities = 6
    /\ lead.deal_stage = Some("opportunity")
    /\ ~IsNone(lead.company_size) /\ Get(lead.company_size) >= 250
    /\ lead.last_activity = HoursAgo(2)

MinimalEngagement(lead) ==
    /\ lead.email_opens \in {0, 1}
    /\ IsNone(lead.last_email_open) \/ DaysSince(lead.last_email_open) > 30
    /\ lead.email_clicks = 0
    /\ lead.website_visits \in {0, 1}
    /\ lead.crm_activities = 0
    /\ lead.deal_stage = Some("subscriber")
    /\ lead.company_size = Some(5)
    /\ lead.last_activity = DaysAgo(45)

\* C21.  Under the default weights and thresholds, the LeadScore of a lead
\* with saturated, recent engagement (15 opens 2 hours ago, 8 clicks, 12
\* visits 4 hours ago, 6 CRM activities, stage opportunity, company size of
\* 250 or more, last activity 2 hours ago) has a score of at least 70 (7000
\* hundredths), the tier HOT or WARM, and every feature key in its breakdown.
C21_HighEngagementExample ==
    ScoredWithDefaults =>
        \A j \in 1..Len(out.scored) :
            SaturatedRecent(out.scored[j].lead) =>
                /\ out.scored[j].score >= 7000
                /\ out.scored[j].score_category \in {HOT, WARM}
                /\ Features \subseteq DOMAIN out.scored[j].score_breakdown

\* C21 witness: score_lead returned for the saturated lead with company
\* size 250 under the defaults: 97.5 and HOT.
C21_Witness ==
    /\ ScoredWithDefaults
    /\ out.op = "score_lead"
    /\ SaturatedRecent(out.scored[1].lead)
    /\ out.scored[1].lead.company_size = Some(250)
    /\ out.scored[1].score = 9750
    /\ out.scored[1].score_category = HOT

\* C22.  Under the default weights and thresholds, the LeadScore of a lead
\* with at most one stale email open and one visit, no clicks and no CRM
\* activities, stage subscriber, company size 5 and last activity 45 days
\* ago has a score below 50 (5000 hundredths) and the tier COLD.
C22_LowEngagementExample ==
    ScoredWithDefaults =>
        \A j \in 1..Len(out.scored) :
            MinimalEngagement(out.scored[j].lead) =>
                /\ out.scored[j].score < 5000
                /\ out.scored[j].score_category = COLD

\* C22 witness: score_lead returned for the low-engagement lead of the
\* tests (one open 45 days ago, one visit) under the defaults: 8.5, COLD.
C22_Witness ==
    /\ ScoredWithDefaults
    /\ out.op = "score_lead"
    /\ MinimalEngagement(out.scored[1].lead)
    /\ out.scored[1].lead.email_opens = 1
    /\ out.scored[1].lead.website_visits = 1
    /\ out.scored[1].score = 850
    /\ out.scored[1].score_category = COLD

---------------------------------------------------------------------------
(* Properties of the lead lookup.                                          *)

Looked == out.op = "get_lead_score"

Among(leads, lead_id) == \E i \in 1..Len(leads) : leads[i].id = lead_id

C23_WitnessFound ==
    /\ Looked
    /\ Len(out.fetched) = 2
    /\ out.lead_id = "low"
    /\ out.status = "200"
    /\ out.scored[1].lead.id = "low"
    /\ out.scored[1].score = 850

---------------------------------------------------------------------------
(* Properties of the sub-scores.                                           *)

NonNegativeCounts(lead) ==
    /\ lead.email_opens >= 0 /\ lead.email_clicks >= 0
    /\ lead.website_visits >= 0 /\ lead.crm_activities >= 0

---------------------------------------------------------------------------
(* Properties of overlapping executions.                                   *)

\* The job is in the store of the running scheduler and can be handed to
\* the executor: no execution of the same job is under way.
Due(id) ==
    /\ sched = "running"
    /\ JobCount(jobstore, id) > 0
    /\ firings[id] < MaxFirings
    /\ ~InFlight(runs[id])

\* The execution has called notify_hot_lead for the lead exactly once.
NotifiedOnce(run, lead_id) ==
    Cardinality({i \in 1..Len(run.trace) :
                     /\ run.trace[i].step = "notify_hot_lead"
                     /\ run.trace[i].lead = lead_id}) = 1

\* C25.  The two jobs are not serialized: whenever one of them is due while
\* an execution of the other is in flight, the scheduler can still hand it
\* to the executor, which starts its execution at once and leaves the one
\* in flight as it is.  (The witness is the state the claim says is
\* reachable.)
C25_NoLockBetweenJobs ==
    /\ (Due("immediate_refresh") /\ InFlight(runs.score_refresh)) =>
           ENABLED (/\ FireImmediateRefresh
                    /\ runs'.immediate_refresh.pc = "created"
                    /\ runs'.score_refresh = runs.score_refresh)
    /\ (Due("score_refresh") /\ InFlight(runs.immediate_refresh)) =>
           ENABLED (/\ FireScoreRefresh
                    /\ runs'.score_refresh.pc = "created"
                    /\ runs'.immediate_refresh = runs.immediate_refresh)

\* C25 witness: both executions are in flight, each suspended in a
\* notification after the one before it was delivered, and each has
\* notified the same HOT lead once.
C25_Witness ==
    /\ runs.score_refresh.pc = "notify"
    /\ runs.immediate_refresh.pc = "notify"
    /\ \E sl \in {runs.score_refresh.scored[i] :
                      i \in 1..Len(runs.score_refresh.scored)} :
           /\ sl.score_category = HOT
           /\ NotifiedOnce(runs.score_refresh, sl.id)
           /\ NotifiedOnce(runs.immediate_refresh, sl.id)
           /\ \E i \in 1..Len(runs.score_refresh.trace) :
                  /\ runs.score_refresh.trace[i].lead = sl.id
                  /\ runs.score_refresh.trace[i].posted
                  /\ runs.score_refresh.trace[i].ok
           /\ \E i \in 1..Len(runs.immediate_refresh.trace) :
                  /\ runs.immediate_refresh.trace[i].lead = sl.id
                  /\ runs.immediate_refresh.trace[i].posted
                  /\ runs.immediate_refresh.trace[i].ok

---------------------------------------------------------------------------
(* Properties of batches under threshold updates.                          *)

\* The threshold pairs the cached Settings can hold: the defaults and the
\* pairs update_alert_config accepts.
ThresholdPairs == {NoConfig} \cup AcceptedConfigs

\* The contact with the given id.
Contact(id) == crm[CHOOSE i \in 1..Len(crm) : crm[i].id = id]

\* Every entry of the batch has the tier that the pair gives its lead.
ClassifiedUnder(c, batch) ==
    \A i \in 1..Len(batch) :
        batch[i].score_category =
            TierUnder(c.hot_threshold, c.warm_threshold,
                      Normalize(TotalScore(LeadScorer(settings), Contact(batch[i].id))))

\* The batches that score_leads calls have returned: those of the
\* executions of the callback and that of the last direct call.
Batches ==
    {runs[id].scored : id \in JobIds} \cup
    (IF Scored("score_leads")
     THEN {[i \in 1..Len(out.scored) |->
               [id |-> out.scored[i].lead.id,
                score_category |-> out.scored[i].score_category]]}
     ELSE {})

\* C26.  Every batch that a score_leads call returned is classified under
\* one threshold pair as a whole, and that pair is one the settings can
\* hold (the defaults or an accepted update): never one part of the batch
\* under one pair and the rest under another, and never the hot threshold
\* of one update with the warm threshold of before.
C26_OnePairPerBatch ==
    \A batch \in Batches : \E c \in ThresholdPairs : ClassifiedUnder(c, batch)

\* C26 witness: an execution is suspended in a notification; its batch of
\* several leads was scored under an updated pair (an update came in while
\* it was suspended in the fetch), and a further update has since given the
\* settings a pair under which the batch would be classified differently.
C26_Witness ==
    \E id \in JobIds :
        /\ runs[id].pc = "notify"
        /\ Len(runs[id].scored) >= 2
        /\ ~ClassifiedUnder(NoConfig, runs[id].scored)
        /\ ~ClassifiedUnder([hot_threshold |-> settings.hot_lead_threshold,
                             warm_threshold |-> settings.warm_lead_threshold],
                            runs[id].scored)
        /\ out.op = "update_alert_config" /\ out.status = "200"

---------------------------------------------------------------------------
(* Properties of the order of tiers.                                       *)

TierRank(category) ==
    CASE category = HOT -> 3
      [] category = WARM -> 2
      [] category = COLD -> 1

\* C27 (as claimed).  In the list score_leads returns no lead of a lower
\* tier precedes a lead of a higher tier: every HOT lead comes before every
\* WARM lead, and every WARM lead before every COLD lead.
C27_TiersFollowOrder ==
    Scored("score_leads") =>
        \A i, j \in 1..Len(out.scored) :
            i < j => TierRank(out.scored[i].score_category)
                         >= TierRank(out.scored[j].score_category)

===========================================================================
